---------------------------- MODULE Spec2Model ----------------------------
(***************************************************************************)
(* EDAutoMission: the rule-matching predicate, the credit extractor, the   *)
(* mission runner's scan, the GUI worker thread and the rule registry.     *)
(*                                                                         *)
(* A Python str is modelled as a sequence of characters, each character a  *)
(* one-element token.  The token "fi" stands for the single character      *)
(* U+FB01 (LATIN SMALL LIGATURE FI), which OCR engines emit and whose      *)
(* str.upper() is the two characters "FI".                                 *)
(***************************************************************************)
EXTENDS Integers, Sequences, FiniteSets, TLC

VARIABLES
    \* -- pure-function harness (matches, _extract_credit_value)
    text,        \* the mission text given to the function
    needles,     \* the rule's needle groups given to matches
    result,      \* the value the function returned
    ppc,         \* "idle" | "ready_matches" | "ready_extract" | "done"
    \* -- MissionRunner (one runner, as built by main.start)
    registry,    \* MissionRegistry._missions of the runner's registry
    dry_run,     \* RunnerConfig.dry_run
    hasStopCb,   \* whether a should_stop callable was given to MissionRunner
    stopReq,     \* what the should_stop callable returns when called
    rpc,         \* position of run_once
    cats,        \* run_once's local `categories`
    ci,          \* index into cats (1-based) of the category being scanned
    scanned,     \* missions scanned in the current category
    accepted,    \* run_once's missions_accepted
    calls,       \* number of calls of each game operation
    total,       \* run_until_full's total_missions
    runs,        \* run_once calls made by run_until_full
    last,        \* what the last _accept_matching_missions call saw and did
    \* -- GUI: EDAutoMissionApp and its RunnerThreads
    runner_thread, \* EDAutoMissionApp.runner_thread (0 is None)
    wpc,         \* per RunnerThread: position of run()
    stop_event,  \* per RunnerThread: _stop_event
    wtotal,      \* per RunnerThread: total_missions
    wscan,       \* per RunnerThread: position inside run_once
    wleft,       \* per RunnerThread: sleep(1) iterations left
    completes,   \* per RunnerThread: number of on_complete invocations
    opsAfterStop,\* per RunnerThread: game operations begun after stop()
    pending,     \* root.after callbacks queued for the main thread
    \* -- MissionRegistry under threads
    missions,    \* MissionRegistry._missions
    lock,        \* MissionRegistry._lock: [owner, depth]
    tpc,         \* per thread: position in its registry operation
    op,          \* per thread: the operation being run and its arguments
    ret,         \* per thread: the value last returned by all()
    retAt,       \* per thread: the list contents when all() returned
    sawPartial,  \* per thread: a read saw another thread's add_many half done
    unlocked,    \* some access to _missions happened without the lock
    \* -- GUI rule operations beside a scanning worker
    gpc,         \* position of the GUI handler being run
    gop,         \* the handler, its arguments and its locals
    wread,       \* the worker's last registry read and the lists around it
    \* -- single calls of functions with arguments
    arg,         \* the arguments of the call
    out,         \* what the call returned
    fpc,         \* which function is to be called, or "done"
    \* -- bookkeeping of a MissionRunner run
    trace,       \* the game operations called, in order
    existing,    \* run_until_full's existing_missions argument
    results,     \* the values returned by the run_once calls so far
    returned,    \* the value run_until_full returned
    \* -- the polling loop against the wall clock
    clock,       \* seconds since the start of the hour
    pcfg,        \* RunnerConfig: poll interval and offset, loop sleep
    lpc,         \* position of the polling loop
    polls,       \* the polling-triggered scans begun: minute of each
    \* -- logging: loggers and their Discord handlers
    handlers,    \* per logger: webhook URLs of its DiscordWebhookHandlers
    dcall,       \* the latest setup_discord_logging call and its result
    \* -- EliteDangerousGame driven by a MissionRunner
    missions_seen,        \* EliteDangerousGame._missions_seen
    back_button_original, \* EliteDangerousGame._back_button_original
    since,       \* next_mission calls since construction or the last reset
    region,      \* the screen region of the last ocr or wing check call
    gpos,        \* position of the runner that calls the game
    left,        \* categories of run_once's for loop not yet begun
    started      \* the game's state when the last category scan began

pureVars == <<text, needles, result, ppc>>
runVars  == <<registry, dry_run, hasStopCb, stopReq, rpc, cats, ci, scanned,
              accepted, calls, total, runs, last>>
guiVars  == <<runner_thread, wpc, stop_event, wtotal, wscan, wleft, completes,
              opsAfterStop, pending>>
regVars  == <<missions, lock, tpc, op, ret, retAt, sawPartial, unlocked>>
editVars == <<gpc, gop, wread>>
callVars == <<arg, out, fpc>>
bookVars == <<trace, existing, results, returned>>
pollVars == <<clock, pcfg, lpc, polls>>
logVars  == <<handlers, dcall>>
gameVars == <<missions_seen, back_button_original, since, region, gpos,
              left, started>>
extVars  == <<editVars, callVars, bookVars, pollVars, logVars, gameVars>>
vars     == <<pureVars, runVars, guiVars, regVars, extVars>>

-----------------------------------------------------------------------------
(* Bounds of the model *)

MaxTextLen   == 3   \* length of the texts given to matches
MaxGroups    == 2   \* needle groups per rule given to matches
MaxCreditLen == 5   \* length of the texts given to _extract_credit_value

-----------------------------------------------------------------------------
(* Python str operations *)

\* str.upper() of one character: a sequence, since it may be longer than one
UpperChar(c) ==
    CASE c = "a" -> <<"A">>
      [] c = "b" -> <<"B">>
      [] c = "c" -> <<"C">>
      [] c = "r" -> <<"R">>
      [] c = "x" -> <<"X">>
      [] c = "fi" -> <<"F", "I">>
      [] OTHER -> <<c>>

\* str.lower() of one character
LowerChar(c) ==
    CASE c = "A" -> <<"a">>
      [] c = "B" -> <<"b">>
      [] c = "C" -> <<"c">>
      [] c = "R" -> <<"r">>
      [] c = "X" -> <<"x">>
      [] c = "F" -> <<"f">>
      [] c = "I" -> <<"i">>
      [] OTHER -> <<c>>

RECURSIVE Upper(_)
Upper(s) == IF s = <<>> THEN <<>> ELSE UpperChar(Head(s)) \o Upper(Tail(s))

RECURSIVE Lower(_)
Lower(s) == IF s = <<>> THEN <<>> ELSE LowerChar(Head(s)) \o Lower(Tail(s))

\* `sub in s`
Contains(s, sub) ==
    \E i \in 0..(Len(s) - Len(sub)) : SubSeq(s, i + 1, i + Len(sub)) = sub

\* s.find(sub): the lowest 0-based index, or -1
RECURSIVE FindFrom(_, _, _)
FindFrom(s, sub, i) ==
    IF i + Len(sub) > Len(s) THEN -1
    ELSE IF SubSeq(s, i + 1, i + Len(sub)) = sub THEN i
    ELSE FindFrom(s, sub, i + 1)

Find(s, sub) == FindFrom(s, sub, 0)

Digits == {"0", "1", "2", "3", "4", "5", "6", "7", "8", "9"}

\* str.isdigit() of one character
IsDigit(c) == c \in Digits

DigitVal(c) ==
    CASE c = "0" -> 0 [] c = "1" -> 1 [] c = "2" -> 2 [] c = "3" -> 3
      [] c = "4" -> 4 [] c = "5" -> 5 [] c = "6" -> 6 [] c = "7" -> 7
      [] c = "8" -> 8 [] c = "9" -> 9

\* int(s) for a non-empty string of decimal digits
RECURSIVE IntOf(_)
IntOf(s) ==
    IF s = <<>> THEN 0
    ELSE 10 * IntOf(SubSeq(s, 1, Len(s) - 1)) + DigitVal(s[Len(s)])

\* s.replace(",", "")
RECURSIVE RemoveCommas(_)
RemoveCommas(s) ==
    IF s = <<>> THEN <<>>
    ELSE IF Head(s) = "," THEN RemoveCommas(Tail(s))
    ELSE <<Head(s)>> \o RemoveCommas(Tail(s))

SeqsUpTo(S, n) == UNION {[1..k -> S] : k \in 0..n}

-----------------------------------------------------------------------------
(* MissionRule.matches *)

\* any(needle.upper() in upper_text for needle in group)
AnyNeedleIn(group, upper_text) ==
    \E k \in 1..Len(group) : Contains(upper_text, Upper(group[k]))

\* the for loop over self.needles, returning False at the first failing group
RECURSIVE MatchesFrom(_, _, _)
MatchesFrom(groups, g, upper_text) ==
    IF g > Len(groups) THEN TRUE
    ELSE IF ~AnyNeedleIn(groups[g], upper_text) THEN FALSE
    ELSE MatchesFrom(groups, g + 1, upper_text)

\* a matcher that compares the needles with the text as written
MatchesCaseSensitive(groups, t) == MatchesFrom(groups, 1, t)

Matches(groups, t) == MatchesFrom(groups, 1, Upper(t))

-----------------------------------------------------------------------------
(* MissionRunner._extract_credit_value *)

\* the while loop: the characters collected walking left from index i
\* (0-based) of mission_text, in the order they are appended
RECURSIVE ScanBack(_, _)
ScanBack(mission_text, i) ==
    IF i >= 0
         /\ (IsDigit(mission_text[i + 1]) \/ mission_text[i + 1] = ",")
    THEN <<mission_text[i + 1]>> \o ScanBack(mission_text, i - 1)
    ELSE <<>>

Reversed(s) == [k \in 1..Len(s) |-> s[Len(s) + 1 - k]]

\* Optional[int]: None is written -1 (an extracted value is never negative)
NoCredit == -1

\* mission_text[i] with i past the end of mission_text raises IndexError,
\* which _extract_credit_value does not catch
RaisedIndexError == -2

CreditFromIndex(mission_text, idx) ==
    IF idx = -1 THEN NoCredit
    ELSE IF idx - 1 >= Len(mission_text) THEN RaisedIndexError
    ELSE LET digits == ScanBack(mission_text, idx - 1)
             num_str == RemoveCommas(Reversed(digits))
         IN IF digits = <<>> THEN NoCredit
            ELSE IF num_str = <<>> THEN NoCredit
            ELSE IntOf(num_str)

\* idx is an index into upper_text, then used as an index into mission_text
ExtractCreditValue(mission_text) ==
    CreditFromIndex(mission_text, Find(Upper(mission_text), <<"C", "R">>))

-----------------------------------------------------------------------------
(* Harness for the pure functions *)

MatchAlphabet  == {"a", "A", "b", "B"}
CreditAlphabet == {"1", "2", ",", "C", "r", "x", "fi"}

\* the needle groups rules are built from; the empty group is one of them
GroupPool ==
    { <<>>,
      << <<"a">> >>,
      << <<"A", "b">> >>,
      << <<"b">>, <<"B", "a">> >>,
      << <<"a", "a">>, <<>> >>,
      << <<"B", "B">>, <<"b", "A">> >> }

IdlePure == text = <<>> /\ needles = <<>> /\ result = FALSE /\ ppc = "idle"

CallMatches ==
    /\ ppc = "ready_matches"
    /\ result' = Matches(needles, text)
    /\ ppc' = "done"
    /\ UNCHANGED <<text, needles>>

CallExtract ==
    /\ ppc = "ready_extract"
    /\ result' = ExtractCreditValue(text)
    /\ ppc' = "done"
    /\ UNCHANGED <<text, needles>>

-----------------------------------------------------------------------------
(* MissionRegistry reads used by the runner *)

Range(f) == {f[k] : k \in DOMAIN f}

\* the nested loops of get_unique_categories: first occurrences, in order
RECURSIVE UniqueAppend(_, _)
UniqueAppend(acc, categories) ==
    IF categories = <<>> THEN acc
    ELSE IF Head(categories) \in Range(acc)
         THEN UniqueAppend(acc, Tail(categories))
         ELSE UniqueAppend(Append(acc, Head(categories)), Tail(categories))

RECURSIVE UniqueCategoriesFrom(_, _)
UniqueCategoriesFrom(acc, ms) ==
    IF ms = <<>> THEN acc
    ELSE UniqueCategoriesFrom(UniqueAppend(acc, Head(ms).categories), Tail(ms))

GetUniqueCategories(ms) == UniqueCategoriesFrom(<<>>, ms)

InCategory(m, category) == category \in Range(m.categories)

RECURSIVE GetRulesForCategory(_, _)
GetRulesForCategory(ms, category) ==
    IF ms = <<>> THEN <<>>
    ELSE IF InCategory(Head(ms), category)
         THEN <<Head(ms)>> \o GetRulesForCategory(Tail(ms), category)
         ELSE GetRulesForCategory(Tail(ms), category)

-----------------------------------------------------------------------------
(* MissionRunner._should_accept_mission and _accept_matching_missions *)

\* what game.check_wing_mission() does when called: returns True, returns
\* False, or raises NotImplementedError
WingResults == {"true", "false", "not_implemented"}

\* a filter that lets a mission through when the wing check is not implemented
ShouldAcceptWingLenient(rule, mission_text, credit_value, wing_result) ==
    IF ~Matches(rule.needles, mission_text) THEN FALSE
    ELSE IF rule.wing /\ wing_result = "false" THEN FALSE
    ELSE IF credit_value = NoCredit THEN FALSE
    ELSE IF credit_value <= rule.value THEN FALSE
    ELSE TRUE

ShouldAcceptMission(rule, mission_text, credit_value, wing_result) ==
    IF ~Matches(rule.needles, mission_text) THEN FALSE
    ELSE IF rule.wing /\ wing_result # "true" THEN FALSE
    ELSE IF credit_value = NoCredit THEN FALSE
    ELSE IF credit_value <= rule.value THEN FALSE
    ELSE TRUE

\* the for loop of _accept_matching_missions: the positions (in
\* rules_for_category) of the rules the mission was accepted under
RECURSIVE AcceptedFrom(_, _, _, _, _)
AcceptedFrom(rules, k, mission_text, credit_value, wing) ==
    IF k > Len(rules) THEN {}
    ELSE (IF ShouldAcceptMission(rules[k], mission_text, credit_value, wing[k])
          THEN {k} ELSE {})
         \cup AcceptedFrom(rules, k + 1, mission_text, credit_value, wing)

\* the game operations that change the game's state
StateChangingOps ==
    {"open_missions_board", "navigate_to_category", "accept_mission",
     "next_mission", "return_to_categories", "return_to_starport"}

\* a runner that presses the accept key in a dry run too
CallUnlessDryButAccept(c, dry, o, n) ==
    IF dry /\ o # "accept_mission" THEN c ELSE [c EXCEPT ![o] = @ + n]

\* `if self.config.dry_run: log ... else: self.game.<o>()`, n times
CallUnlessDry(c, dry, o, n) ==
    IF dry THEN c ELSE [c EXCEPT ![o] = @ + n]

\* self._should_stop(): the callable given, or lambda: False
ShouldStop == hasStopCb /\ stopReq

-----------------------------------------------------------------------------
(* MissionRunner: _accept_matching_missions, _scan_category, run_once,     *)
(* run_until_full                                                          *)

MaxScan  == 2   \* times at_bottom() returns False in one category
MaxRuns  == 2   \* run_once calls in one run_until_full
MaxDepot == 2   \* RunnerConfig.max_missions of the modelled runs

RuleA == [needles |-> << << <<"a">> >> >>, label |-> "A", wing |-> FALSE,
          value |-> 11, categories |-> <<"transport">>]
RuleB == [needles |-> << << <<"x">>, <<"b">> >> >>, label |-> "B", wing |-> TRUE,
          value |-> 2, categories |-> <<"transport", "combat">>]
RuleC == [needles |-> << << <<"b", "1">> >>, << <<"a">> >> >>, label |-> "C", wing |-> TRUE,
          value |-> 0, categories |-> <<"combat">>]

RegistryPool ==
    { <<>>, <<RuleA>>, <<RuleA, RuleB>>, <<RuleB, RuleC>>, <<RuleC, RuleA>> }

\* what ocr_mission() may return
MissionTexts ==
    { <<"a", "1", "1", "C", "r">>,
      <<"A", "b", "1", "2", "c", "R">>,
      <<"B", "1", ",", "0", "C", "R">>,
      <<"a", "b">>,
      <<"fi", "a", "2", "0", "C", "R">>,
      <<"fi", "fi", "fi", "C", "R">> }

\* one check_wing_mission outcome per rule of the category; the outcome of a
\* rule that is no wing rule is never asked for
WingChoices(rules) ==
    {w \in [1..Len(rules) -> WingResults \cup {"unused"}] :
        \A k \in 1..Len(rules) : (w[k] = "unused") <=> ~rules[k].wing}

NoCalls == [o \in StateChangingOps |-> 0]

NoLast == [valid |-> FALSE, text |-> <<>>, rules |-> <<>>, wing |-> <<>>,
           acc |-> {}, acceptCalls |-> 0, counted |-> 0]

\* _accept_matching_missions(mission_text, category) under the given wing
\* check outcomes: what it returns, and the game's call counts after it
AcceptMatchingMissions(c, dry, ms, mission_text, category, wing) ==
    LET credit_value == ExtractCreditValue(mission_text)
        rules == GetRulesForCategory(ms, category)
        acc == AcceptedFrom(rules, 1, mission_text, credit_value, wing)
    IN [raised |-> credit_value = RaisedIndexError,
        acc |-> acc,
        accepted |-> Cardinality(acc),
        calls |-> CallUnlessDry(c, dry, "accept_mission", Cardinality(acc))]

\* one _accept_matching_missions call on its own
CallAcceptMatching ==
    /\ rpc = "accept_ready"
    /\ \E category \in Range(GetUniqueCategories(registry)),
          mission_text \in MissionTexts :
         \E wing \in WingChoices(GetRulesForCategory(registry, category)) :
           LET r == AcceptMatchingMissions(calls, dry_run, registry,
                                           mission_text, category, wing)
           IN /\ ~r.raised
              /\ accepted' = accepted + r.accepted
              /\ calls' = r.calls
              /\ last' = [valid |-> TRUE, text |-> mission_text,
                          rules |-> GetRulesForCategory(registry, category),
                          wing |-> wing, acc |-> r.acc,
                          acceptCalls |-> r.calls["accept_mission"]
                                          - calls["accept_mission"],
                          counted |-> r.accepted]
    /\ rpc' = "accept_done"
    /\ UNCHANGED <<registry, dry_run, hasStopCb, stopReq, cats, ci, scanned,
                   total, runs>>

RunOnceBegin ==
    /\ rpc = "start"
    /\ cats' = GetUniqueCategories(registry)
    /\ accepted' = 0
    /\ IF cats' = <<>>
       THEN /\ rpc' = "returned"
            /\ UNCHANGED <<ci, calls>>
       ELSE /\ rpc' = "category"
            /\ ci' = 1
            /\ calls' = CallUnlessDry(calls, dry_run, "open_missions_board", 1)
    /\ UNCHANGED <<registry, dry_run, hasStopCb, stopReq, scanned, total,
                   runs, last>>

\* the stop check at the top of the for loop finds no stop: _scan_category
\* begins with navigate_to_category
EnterCategory ==
    /\ rpc = "category"
    /\ ~ShouldStop
    /\ calls' = CallUnlessDry(calls, dry_run, "navigate_to_category", 1)
    /\ scanned' = 0
    /\ rpc' = "scan"
    /\ UNCHANGED <<registry, dry_run, hasStopCb, stopReq, cats, ci, accepted,
                   total, runs, last>>

\* a handler of InterruptedError that raises again without going back to
\* the starport
InterruptWithoutReturn ==
    /\ \/ rpc = "category"
       \/ rpc = "scan" /\ scanned < MaxScan
    /\ ShouldStop
    /\ rpc' = "interrupted"
    /\ UNCHANGED <<registry, dry_run, hasStopCb, stopReq, cats, ci, scanned,
                   accepted, calls, total, runs, last>>

\* InterruptedError raised by a stop check (before a category, or after
\* at_bottom() returned False), caught by run_once's handler and raised
\* again: it leaves run_until_full too
Interrupt ==
    /\ \/ rpc = "category"
       \/ rpc = "scan" /\ scanned < MaxScan
    /\ ShouldStop
    /\ calls' = CallUnlessDry(calls, dry_run, "return_to_starport", 1)
    /\ rpc' = "interrupted"
    /\ UNCHANGED <<registry, dry_run, hasStopCb, stopReq, cats, ci, scanned,
                   accepted, total, runs, last>>

\* at_bottom() returned False and no stop is seen: ocr_mission,
\* _accept_matching_missions, next_mission
ScanMission ==
    /\ rpc = "scan"
    /\ scanned < MaxScan
    /\ ~ShouldStop
    /\ \E mission_text \in MissionTexts :
         \E wing \in WingChoices(GetRulesForCategory(registry, cats[ci])) :
           LET r == AcceptMatchingMissions(calls, dry_run, registry,
                                           mission_text, cats[ci], wing)
           IN IF r.raised
              THEN /\ rpc' = "raised"
                   /\ UNCHANGED <<scanned, accepted, calls>>
              ELSE /\ accepted' = accepted + r.accepted
                   /\ calls' = CallUnlessDry(r.calls, dry_run,
                                             "next_mission", 1)
                   /\ scanned' = scanned + 1
                   /\ rpc' = "scan"
    /\ UNCHANGED <<registry, dry_run, hasStopCb, stopReq, cats, ci, total,
                   runs, last>>

\* at_bottom() returned True: back to the categories, or to the starport
\* after the last category
LeaveCategory ==
    /\ rpc = "scan"
    /\ IF ci < Len(cats)
       THEN /\ calls' = CallUnlessDry(calls, dry_run, "return_to_categories", 1)
            /\ ci' = ci + 1
            /\ rpc' = "category"
       ELSE /\ calls' = CallUnlessDry(calls, dry_run, "return_to_starport", 1)
            /\ ci' = ci
            /\ rpc' = "returned"
    /\ UNCHANGED <<registry, dry_run, hasStopCb, stopReq, cats, scanned,
                   accepted, total, runs, last>>

\* run_until_full adds what run_once returned; after the first run_once a
\* stop makes it return, after a later one the loop goes on
AddRunResult ==
    /\ rpc = "returned"
    /\ total' = total + accepted
    /\ rpc' = IF runs = 1 /\ ShouldStop THEN "full_returned" ELSE "loop"
    /\ UNCHANGED <<registry, dry_run, hasStopCb, stopReq, cats, ci, scanned,
                   accepted, calls, runs, last>>

\* the while loop sees the depot full, or a stop: run_until_full returns
LoopExit ==
    /\ rpc = "loop"
    /\ total >= MaxDepot \/ ShouldStop
    /\ rpc' = "full_returned"
    /\ UNCHANGED <<registry, dry_run, hasStopCb, stopReq, cats, ci, scanned,
                   accepted, calls, total, runs, last>>

\* the while loop finds the minute to be a polling minute: run_once again
\* (an iteration in another minute only sleeps and changes nothing)
LoopPoll ==
    /\ rpc = "loop"
    /\ total < MaxDepot
    /\ ~ShouldStop
    /\ runs < MaxRuns
    /\ runs' = runs + 1
    /\ rpc' = "start"
    /\ UNCHANGED <<registry, dry_run, hasStopCb, stopReq, cats, ci, scanned,
                   accepted, calls, total, last>>

\* the should_stop callable starts to return True
RequestStop ==
    /\ hasStopCb
    /\ ~stopReq
    /\ rpc \in {"start", "category", "scan", "returned", "loop"}
    /\ stopReq' = TRUE
    /\ UNCHANGED <<registry, dry_run, hasStopCb, rpc, cats, ci, scanned,
                   accepted, calls, total, runs, last>>

-----------------------------------------------------------------------------
(* gui/runner.py RunnerThread and gui/app.py EDAutoMissionApp             *)

MaxWorkers == 2
LoopSleepSeconds == 2

Workers == 1..MaxWorkers

(* threading.Thread.is_alive(): started and run() not yet returned *)
Alive(w) == wpc[w] \notin {"new", "unused", "dead"}

(* RunnerThread._stop_event.is_set() *)
StopIsSet(w) == stop_event[w]

(* The MissionRunner a RunnerThread builds gets no should_stop callback, *)
(* so its _should_stop is the default lambda: False                       *)
RunnerShouldStop(w) == FALSE

NoScan == [at |-> "none", n |-> 0, acc |-> 0]

(* One game operation begun by worker w: counted when stop() came before *)
GameOp(w) ==
    opsAfterStop' = [opsAfterStop EXCEPT ![w] = IF StopIsSet(w) THEN @ + 1 ELSE @]

(* run()'s finally block: the number of on_complete invocations *)
OnCompleteOnSuccessOnly(raised) == IF raised THEN 0 ELSE 1

OnCompleteCalls(raised) == 1

(* run_once: game.open_missions_board() *)
WOpenBoard(w) ==
    /\ wpc[w] \in {"first_scan", "poll_scan"}
    /\ wscan[w].at = "open"
    /\ GameOp(w)
    /\ wscan' = [wscan EXCEPT ![w].at = "navigate"]
    /\ UNCHANGED <<runner_thread, wpc, stop_event, wtotal, wleft, completes,
                   pending>>

(* run_once's category loop and _scan_category: the stop check of the   *)
(* runner, then game.navigate_to_category()                              *)
WNavigate(w) ==
    /\ wpc[w] \in {"first_scan", "poll_scan"}
    /\ wscan[w].at = "navigate"
    /\ GameOp(w)
    /\ IF RunnerShouldStop(w)
         THEN /\ wpc' = [wpc EXCEPT ![w] = "raised"]
              /\ wscan' = [wscan EXCEPT ![w] = NoScan]
         ELSE /\ wscan' = [wscan EXCEPT ![w].at = "missions"]
              /\ UNCHANGED wpc
    /\ UNCHANGED <<runner_thread, stop_event, wtotal, wleft, completes,
                   pending>>

(* _scan_category's loop body while at_bottom() is false: ocr_mission,  *)
(* _accept_matching_missions, next_mission                               *)
WScanMission(w) ==
    /\ wpc[w] \in {"first_scan", "poll_scan"}
    /\ wscan[w].at = "missions"
    /\ wscan[w].n < MaxScan
    /\ GameOp(w)
    /\ IF RunnerShouldStop(w)
         THEN /\ wpc' = [wpc EXCEPT ![w] = "raised"]
              /\ wscan' = [wscan EXCEPT ![w] = NoScan]
         ELSE /\ \E a \in 0..1 :
                    wscan' = [wscan EXCEPT ![w].n = @ + 1, ![w].acc = @ + a]
              /\ UNCHANGED wpc
    /\ UNCHANGED <<runner_thread, stop_event, wtotal, wleft, completes,
                   pending>>

(* at_bottom() is true: game.return_to_starport(), run_once returns and *)
(* _run_with_stop_check adds the result to total_missions. After the    *)
(* first scan a set stop event returns at once, as the loop would.      *)
WReturnToStarport(w) ==
    /\ wpc[w] \in {"first_scan", "poll_scan"}
    /\ wscan[w].at = "missions"
    /\ GameOp(w)
    /\ wtotal' = [wtotal EXCEPT ![w] = @ + wscan[w].acc]
    /\ wscan' = [wscan EXCEPT ![w] = NoScan]
    /\ IF wpc[w] = "first_scan"
         THEN /\ wpc' = [wpc EXCEPT ![w] = "loop"]
              /\ UNCHANGED wleft
         ELSE /\ wpc' = [wpc EXCEPT ![w] = "sleep"]
              /\ wleft' = [wleft EXCEPT ![w] = LoopSleepSeconds]
    /\ UNCHANGED <<runner_thread, stop_event, completes, pending>>

(* A game operation raises: run() catches Exception and logs it *)
WRaise(w) ==
    /\ wpc[w] \in {"first_scan", "poll_scan"}
    /\ GameOp(w)
    /\ wpc' = [wpc EXCEPT ![w] = "raised"]
    /\ wscan' = [wscan EXCEPT ![w] = NoScan]
    /\ UNCHANGED <<runner_thread, stop_event, wtotal, wleft, completes,
                   pending>>

(* while total_missions < max_missions fails, or the stop event is set *)
WLoopExit(w) ==
    /\ wpc[w] = "loop"
    /\ wtotal[w] >= MaxDepot \/ StopIsSet(w)
    /\ wpc' = [wpc EXCEPT ![w] = "finishing"]
    /\ UNCHANGED <<runner_thread, stop_event, wtotal, wscan, wleft,
                   completes, opsAfterStop, pending>>

(* poll_check == 0 and the stop event is not set: run_once *)
WLoopPoll(w) ==
    /\ wpc[w] = "loop"
    /\ wtotal[w] < MaxDepot /\ ~StopIsSet(w)
    /\ wpc' = [wpc EXCEPT ![w] = "poll_scan"]
    /\ wscan' = [wscan EXCEPT ![w] = [NoScan EXCEPT !.at = "open"]]
    /\ UNCHANGED <<runner_thread, stop_event, wtotal, wleft, completes,
                   opsAfterStop, pending>>

(* poll_check != 0: straight to the sleep loop *)
WLoopNoPoll(w) ==
    /\ wpc[w] = "loop"
    /\ wtotal[w] < MaxDepot /\ ~StopIsSet(w)
    /\ wpc' = [wpc EXCEPT ![w] = "sleep"]
    /\ wleft' = [wleft EXCEPT ![w] = LoopSleepSeconds]
    /\ UNCHANGED <<runner_thread, stop_event, wtotal, wscan, completes,
                   opsAfterStop, pending>>

(* for _ in range(loop_sleep_seconds): if stop: break; sleep(1) *)
WSleep(w) ==
    /\ wpc[w] = "sleep"
    /\ IF wleft[w] = 0 \/ StopIsSet(w)
         THEN /\ wpc' = [wpc EXCEPT ![w] = "loop"]
              /\ wleft' = [wleft EXCEPT ![w] = 0]
         ELSE /\ wleft' = [wleft EXCEPT ![w] = @ - 1]
              /\ UNCHANGED wpc
    /\ UNCHANGED <<runner_thread, stop_event, wtotal, wscan, completes,
                   opsAfterStop, pending>>

(* run()'s finally: on_complete(total), which is _on_runner_complete and *)
(* queues _runner_finished with root.after; then the thread ends         *)
WFinally(w) ==
    /\ wpc[w] \in {"finishing", "raised"}
    /\ completes' = [completes EXCEPT ![w] = @ + OnCompleteCalls(wpc[w] = "raised")]
    /\ pending' = IF OnCompleteCalls(wpc[w] = "raised") > 0
                    THEN pending \cup {w} ELSE pending
    /\ wpc' = [wpc EXCEPT ![w] = "dead"]
    /\ UNCHANGED <<runner_thread, stop_event, wtotal, wscan, wleft,
                   opsAfterStop>>

(* _toggle_runner with no live runner_thread: _start_runner *)
StartRunner ==
    /\ ~(runner_thread # 0 /\ Alive(runner_thread))
    /\ \E w \in Workers, initial \in 0..1 :
        /\ wpc[w] = "new"
        /\ \A v \in Workers : v < w => wpc[v] # "new"
        /\ runner_thread' = w
        /\ wpc' = [wpc EXCEPT ![w] = "first_scan"]
        /\ wtotal' = [wtotal EXCEPT ![w] = initial]
        /\ wscan' = [wscan EXCEPT ![w] = [NoScan EXCEPT !.at = "open"]]
    /\ UNCHANGED <<stop_event, wleft, completes, opsAfterStop, pending>>

(* _toggle_runner with a live runner_thread: _stop_runner *)
StopRunner ==
    /\ runner_thread # 0 /\ Alive(runner_thread)
    /\ stop_event' = [stop_event EXCEPT ![runner_thread] = TRUE]
    /\ runner_thread' = 0
    /\ UNCHANGED <<wpc, wtotal, wscan, wleft, completes, opsAfterStop,
                   pending>>

(* The main loop runs a queued _runner_finished *)
RunnerFinished ==
    /\ \E w \in pending : pending' = pending \ {w}
    /\ runner_thread' = 0
    /\ UNCHANGED <<wpc, stop_event, wtotal, wscan, wleft, completes,
                   opsAfterStop>>

-----------------------------------------------------------------------------
(* core/mission_registry.py MissionRegistry called from several threads *)

MaxRegOps == 3   \* registry operations called in one behaviour

RegThreads == {"t1", "t2"}

FreeLock == [owner |-> "none", depth |-> 0]

NoOp == [name |-> "none", rules |-> <<>>, label |-> "", k |-> 0]

(* The calls a thread may make: the operation and its arguments *)
RegOps ==
    { [NoOp EXCEPT !.name = "add", !.rules = <<RuleA>>],
      [NoOp EXCEPT !.name = "add_rule", !.rules = <<RuleA>>],
      [NoOp EXCEPT !.name = "add_many", !.rules = <<RuleB, RuleC>>],
      [NoOp EXCEPT !.name = "remove", !.rules = <<RuleA>>],
      [NoOp EXCEPT !.name = "remove_label", !.label = "B"],
      [NoOp EXCEPT !.name = "all"],
      [NoOp EXCEPT !.name = "get_unique_categories"],
      [NoOp EXCEPT !.name = "get_rules_for_category", !.label = "transport"],
      [NoOp EXCEPT !.name = "clear"],
      [NoOp EXCEPT !.name = "len"] }

RECURSIVE OpsCalled(_)
OpsCalled(S) ==
    IF S = {} THEN 0
    ELSE LET t == CHOOSE x \in S : TRUE
         IN tpc[t].done + OpsCalled(S \ {t})

(* remove's loop: the index of the first rule equal to the argument, or *)
(* whose label is the argument when the argument is a str; 0 for none   *)
RECURSIVE RemoveIndexFrom(_, _, _)
RemoveIndexFrom(ms, o, idx) ==
    IF idx > Len(ms) THEN 0
    ELSE IF o.name = "remove" /\ ms[idx] = o.rules[1] THEN idx
    ELSE IF o.name = "remove_label" /\ ms[idx].label = o.label THEN idx
    ELSE RemoveIndexFrom(ms, o, idx + 1)

(* list.pop(idx) *)
Pop(ms, idx) == [k \in 1..(Len(ms) - 1) |-> IF k < idx THEN ms[k] ELSE ms[k + 1]]

(* A list object a caller holds: a new list with the given items, or the *)
(* registry's own _missions                                               *)
NoList == [valid |-> FALSE, alias |-> FALSE, val |-> <<>>]

ListItself(ms) == [valid |-> TRUE, alias |-> TRUE, val |-> <<>>]

(* list(self._missions) *)
ListCopy(ms) == [valid |-> TRUE, alias |-> FALSE, val |-> ms]

(* The items of a held list object, read now *)
Items(l) == IF l.alias THEN missions ELSE l.val

(* Another thread's add_many has appended some of its rules, not all *)
HalfApplied(t) ==
    \E u \in RegThreads \ {t} :
        op[u].name = "add_many" /\ 0 < op[u].k /\ op[u].k < Len(op[u].rules)

(* An access to self._missions by thread t *)
Touch(t) == unlocked' = (unlocked \/ lock.owner # t)

Observe(t) == sawPartial' = [sawPartial EXCEPT ![t] = @ \/ HalfApplied(t)]

(* A call begins: `with self._lock` acquires the RLock *)
RegAcquire(t) ==
    /\ tpc[t].at = "idle"
    /\ OpsCalled(RegThreads) < MaxRegOps
    /\ lock.owner \in {"none", t}
    /\ lock' = [owner |-> t, depth |-> lock.depth + 1]
    /\ \E o \in RegOps : op' = [op EXCEPT ![t] = o]
    /\ tpc' = [tpc EXCEPT ![t] = [at |-> "locked", done |-> @.done + 1]]
    /\ UNCHANGED <<missions, ret, retAt, sawPartial, unlocked>>

(* add, add_rule: self._missions.append(rule) *)
RegAppend(t) ==
    /\ tpc[t].at = "locked"
    /\ op[t].name \in {"add", "add_rule"}
    /\ Touch(t)
    /\ missions' = Append(missions, op[t].rules[1])
    /\ tpc' = [tpc EXCEPT ![t].at = "release"]
    /\ UNCHANGED <<lock, op, ret, retAt, sawPartial>>

(* add_many: one iteration of the loop, inside the with block *)
RegAddManyStep(t) ==
    /\ tpc[t].at = "locked"
    /\ op[t].name = "add_many"
    /\ op[t].k < Len(op[t].rules)
    /\ Touch(t)
    /\ missions' = Append(missions, op[t].rules[op[t].k + 1])
    /\ op' = [op EXCEPT ![t].k = @ + 1]
    /\ tpc' = [tpc EXCEPT ![t].at =
                 IF op[t].k + 1 = Len(op[t].rules) THEN "release" ELSE "locked"]
    /\ UNCHANGED <<lock, ret, retAt, sawPartial>>

(* remove: the search and the pop, inside the with block *)
RegRemove(t) ==
    /\ tpc[t].at = "locked"
    /\ op[t].name \in {"remove", "remove_label"}
    /\ Touch(t)
    /\ Observe(t)
    /\ LET idx == RemoveIndexFrom(missions, op[t], 1)
       IN missions' = IF idx = 0 THEN missions ELSE Pop(missions, idx)
    /\ tpc' = [tpc EXCEPT ![t].at = "release"]
    /\ UNCHANGED <<lock, op, ret, retAt>>

(* all: return list(self._missions) *)
RegAll(t) ==
    /\ tpc[t].at = "locked"
    /\ op[t].name = "all"
    /\ Touch(t)
    /\ Observe(t)
    /\ ret' = [ret EXCEPT ![t] = ListCopy(missions)]
    /\ retAt' = [retAt EXCEPT ![t] = missions]
    /\ tpc' = [tpc EXCEPT ![t].at = "release"]
    /\ UNCHANGED <<missions, lock, op>>

(* get_unique_categories, get_rules_for_category, __len__ *)
RegRead(t) ==
    /\ tpc[t].at = "locked"
    /\ op[t].name \in {"get_unique_categories", "get_rules_for_category", "len"}
    /\ Touch(t)
    /\ Observe(t)
    /\ tpc' = [tpc EXCEPT ![t].at = "release"]
    /\ UNCHANGED <<missions, lock, op, ret, retAt>>

(* clear: self._missions.clear() *)
RegClear(t) ==
    /\ tpc[t].at = "locked"
    /\ op[t].name = "clear"
    /\ Touch(t)
    /\ missions' = <<>>
    /\ tpc' = [tpc EXCEPT ![t].at = "release"]
    /\ UNCHANGED <<lock, op, ret, retAt, sawPartial>>

(* The with block ends: the RLock is released and the call returns *)
RegRelease(t) ==
    /\ tpc[t].at = "release"
    /\ lock' = IF lock.depth = 1 THEN FreeLock
               ELSE [lock EXCEPT !.depth = @ - 1]
    /\ op' = [op EXCEPT ![t] = NoOp]
    /\ tpc' = [tpc EXCEPT ![t].at = "idle"]
    /\ UNCHANGED <<missions, ret, retAt, sawPartial, unlocked>>

-----------------------------------------------------------------------------
(* gui/app.py rule handlers of EDAutoMissionApp, run by the main thread  *)
(* while a RunnerThread reads the same registry.  Each registry call is  *)
(* one step: it runs under the registry's lock.                          *)

(* DEFAULT_MISSIONS, which the GUI's registry starts with *)
DefaultMissions == <<RuleA, RuleB>>

(* The rule lists an import file may hold *)
ImportData == {<<>>, <<RuleC>>, <<RuleC, RuleA>>}

NoHandler == [name |-> "none", idx |-> 0, new |-> <<>>, rules |-> <<>>,
              queue |-> <<>>, before |-> <<>>, after |-> <<>>]

NoRead == [valid |-> FALSE, category |-> "", cats |-> <<>>, rules |-> <<>>,
           before |-> <<>>, after |-> <<>>]

(* rules[i], rules[j] = rules[j], rules[i] *)
Swapped(rules, i, j) ==
    [k \in 1..Len(rules) |->
        IF k = i THEN rules[j] ELSE IF k = j THEN rules[i] ELSE rules[k]]

(* _edit_mission's re-adding loop: x goes in front of rules[k], or last *)
InsertAt(rules, k, x) ==
    SubSeq(rules, 1, k - 1) \o <<x>> \o SubSeq(rules, k, Len(rules))

(* The list a handler is to leave in the registry *)
HandlerResult(h) ==
    CASE h.name = "edit" -> [h.before EXCEPT ![h.idx] = h.new[1]]
      [] h.name = "move_up" -> Swapped(h.before, h.idx, h.idx - 1)
      [] h.name = "move_down" -> Swapped(h.before, h.idx, h.idx + 1)
      [] h.name = "reset_defaults" -> DefaultMissions
      [] h.name = "import" -> h.new

(* A handler starts; _edit_mission, _move_up and _move_down first take  *)
(* rules = self.registry.all()                                           *)
HandlerBegin ==
    /\ gpc = "idle"
    /\ \E h \in {"edit", "move_up", "move_down", "reset_defaults", "import"},
          i \in 1..Len(missions) \cup {0}, data \in ImportData :
        /\ h = "edit" => i >= 1 /\ data = <<RuleC>>
        /\ h = "move_up" => i >= 2 /\ data = <<>>
        /\ h = "move_down" => i >= 1 /\ i < Len(missions) /\ data = <<>>
        /\ h = "reset_defaults" => i = 0 /\ data = <<>>
        /\ h = "import" => i = 0
        /\ LET g == [NoHandler EXCEPT !.name = h, !.idx = i, !.new = data,
                                      !.rules = missions, !.before = missions]
           IN gop' = [g EXCEPT !.after = HandlerResult(g)]
        /\ gpc' = IF h = "edit" THEN "remove" ELSE "clear"
    /\ UNCHANGED <<missions, wread>>

(* _edit_mission: self.registry.remove(rule) *)
HandlerRemove ==
    /\ gpc = "remove"
    /\ LET o == [NoOp EXCEPT !.name = "remove", !.rules = <<gop.rules[gop.idx]>>]
           idx == RemoveIndexFrom(missions, o, 1)
       IN missions' = IF idx = 0 THEN missions ELSE Pop(missions, idx)
    /\ gpc' = "all"
    /\ UNCHANGED <<gop, wread>>

(* _edit_mission: all_rules = self.registry.all() *)
HandlerAll ==
    /\ gpc = "all"
    /\ gop' = [gop EXCEPT !.rules = missions]
    /\ gpc' = "clear"
    /\ UNCHANGED <<missions, wread>>

(* self.registry.clear(), and the list the handler goes on to add *)
HandlerClear ==
    /\ gpc = "clear"
    /\ missions' = <<>>
    /\ gop' = [gop EXCEPT
                 !.queue = CASE gop.name = "edit" ->
                                  InsertAt(gop.rules, gop.idx, gop.new[1])
                             [] gop.name = "move_up" ->
                                  Swapped(gop.rules, gop.idx, gop.idx - 1)
                             [] gop.name = "move_down" ->
                                  Swapped(gop.rules, gop.idx, gop.idx + 1)
                             [] gop.name = "reset_defaults" -> DefaultMissions
                             [] gop.name = "import" -> gop.new]
    /\ gpc' = IF gop.name \in {"edit", "import"} THEN "add_rules" ELSE "add_many"
    /\ UNCHANGED wread

(* _move_up, _move_down, _reset_defaults: self.registry.add_many(rules) *)
HandlerAddMany ==
    /\ gpc = "add_many"
    /\ missions' = missions \o gop.queue
    /\ gop' = NoHandler
    /\ gpc' = "idle"
    /\ UNCHANGED wread

(* _edit_mission, _import_missions: one self.registry.add_rule(r) of the *)
(* loop, or the end of the loop                                           *)
HandlerAddRule ==
    /\ gpc = "add_rules"
    /\ IF gop.queue = <<>>
         THEN /\ gop' = NoHandler
              /\ gpc' = "idle"
              /\ UNCHANGED missions
         ELSE /\ missions' = Append(missions, Head(gop.queue))
              /\ gop' = [gop EXCEPT !.queue = Tail(@)]
              /\ UNCHANGED gpc
    /\ UNCHANGED wread

(* The worker's run_once and _accept_matching_missions read the registry *)
WorkerRead ==
    /\ \E category \in {"transport", "combat"} :
        wread' = [valid |-> TRUE, category |-> category,
                  cats |-> GetUniqueCategories(missions),
                  rules |-> GetRulesForCategory(missions, category),
                  before |-> IF gpc = "idle" THEN missions ELSE gop.before,
                  after |-> IF gpc = "idle" THEN missions ELSE gop.after]
    /\ UNCHANGED <<missions, gpc, gop>>

-----------------------------------------------------------------------------
(* States of the parts a specification does not use *)

IdleRun ==
    /\ registry = <<>> /\ dry_run = FALSE /\ hasStopCb = FALSE
    /\ stopReq = FALSE /\ rpc = "idle" /\ cats = <<>> /\ ci = 0
    /\ scanned = 0 /\ accepted = 0 /\ calls = NoCalls /\ total = 0
    /\ runs = 0 /\ last = NoLast

IdleGui ==
    /\ runner_thread = 0 /\ wpc = <<>> /\ stop_event = <<>> /\ wtotal = <<>>
    /\ wscan = <<>> /\ wleft = <<>> /\ completes = <<>>
    /\ opsAfterStop = <<>> /\ pending = {}

IdleReg ==
    /\ missions = <<>> /\ lock = <<>> /\ tpc = <<>> /\ op = <<>>
    /\ ret = <<>> /\ retAt = <<>> /\ sawPartial = <<>> /\ unlocked = FALSE

IdleEdit == gpc = "idle" /\ gop = <<>> /\ wread = <<>>

IdleCall == arg = <<>> /\ out = <<>> /\ fpc = "idle"

IdleBook == trace = <<>> /\ existing = 0 /\ results = <<>> /\ returned = 0

IdlePoll == clock = 0 /\ pcfg = <<>> /\ lpc = "idle" /\ polls = <<>>

IdleLog == handlers = <<>> /\ dcall = <<>>

IdleGame ==
    /\ missions_seen = 0 /\ back_button_original = "None" /\ since = 0
    /\ region = <<>> /\ gpos = "idle" /\ left = 0 /\ started = <<>>

IdleExt == IdleEdit /\ IdleCall /\ IdleBook /\ IdlePoll /\ IdleLog /\ IdleGame

-----------------------------------------------------------------------------
(* Specification of matches: every text and rule within the bounds *)

InitMatch ==
    /\ text \in SeqsUpTo(MatchAlphabet, MaxTextLen)
    /\ needles \in SeqsUpTo(GroupPool, MaxGroups)
    /\ result = FALSE
    /\ ppc = "ready_matches"
    /\ IdleRun /\ IdleGui /\ IdleReg /\ IdleExt

NextMatch == CallMatches /\ UNCHANGED <<runVars, guiVars, regVars, extVars>>

SpecMatch == InitMatch /\ [][NextMatch]_vars

(* Specification of _extract_credit_value: every text within the bounds *)

InitCredit ==
    /\ text \in SeqsUpTo(CreditAlphabet, MaxCreditLen)
    /\ needles = <<>>
    /\ result = NoCredit
    /\ ppc = "ready_extract"
    /\ IdleRun /\ IdleGui /\ IdleReg /\ IdleExt

NextCredit == CallExtract /\ UNCHANGED <<runVars, guiVars, regVars, extVars>>

SpecCredit == InitCredit /\ [][NextCredit]_vars

-----------------------------------------------------------------------------
(* Specification of _accept_matching_missions: one call, every registry of *)
(* the pool, every category, text and wing check outcome                   *)

InitAccept ==
    /\ registry \in RegistryPool
    /\ dry_run \in BOOLEAN
    /\ hasStopCb = FALSE
    /\ stopReq = FALSE
    /\ rpc = "accept_ready"
    /\ cats = <<>>
    /\ ci = 0
    /\ scanned = 0
    /\ accepted = 0
    /\ calls = NoCalls
    /\ total = 0
    /\ runs = 0
    /\ last = NoLast
    /\ IdlePure /\ IdleGui /\ IdleReg /\ IdleExt

NextAccept == CallAcceptMatching /\ UNCHANGED <<pureVars, guiVars, regVars, extVars>>

SpecAccept == InitAccept /\ [][NextAccept]_vars

(* Specification of one run_until_full call of a MissionRunner *)

InitRun ==
    /\ registry \in RegistryPool
    /\ dry_run \in BOOLEAN
    /\ hasStopCb \in BOOLEAN
    /\ stopReq = FALSE
    /\ rpc = "start"
    /\ cats = <<>>
    /\ ci = 0
    /\ scanned = 0
    /\ accepted = 0
    /\ calls = NoCalls
    /\ total \in 0..1
    /\ runs = 1
    /\ last = NoLast
    /\ IdlePure /\ IdleGui /\ IdleReg /\ IdleExt

RunFrame == UNCHANGED <<pureVars, guiVars, regVars, extVars>>

NextRun ==
    \/ RunOnceBegin /\ RunFrame
    \/ EnterCategory /\ RunFrame
    \/ Interrupt /\ RunFrame
    \/ ScanMission /\ RunFrame
    \/ LeaveCategory /\ RunFrame
    \/ AddRunResult /\ RunFrame
    \/ LoopExit /\ RunFrame
    \/ LoopPoll /\ RunFrame
    \/ RequestStop /\ RunFrame

SpecRun == InitRun /\ [][NextRun]_vars

-----------------------------------------------------------------------------
(* Specification of the GUI: Start/Stop clicks, the RunnerThreads they  *)
(* create and the callbacks the threads queue for the main loop         *)

InitGui ==
    /\ runner_thread = 0
    /\ wpc = [w \in Workers |-> "new"]
    /\ stop_event = [w \in Workers |-> FALSE]
    /\ wtotal = [w \in Workers |-> 0]
    /\ wscan = [w \in Workers |-> NoScan]
    /\ wleft = [w \in Workers |-> 0]
    /\ completes = [w \in Workers |-> 0]
    /\ opsAfterStop = [w \in Workers |-> 0]
    /\ pending = {}
    /\ IdlePure /\ IdleRun /\ IdleReg /\ IdleExt

GuiFrame == UNCHANGED <<pureVars, runVars, regVars, extVars>>

WorkerStep(w) ==
    \/ WOpenBoard(w) /\ GuiFrame
    \/ WNavigate(w) /\ GuiFrame
    \/ WScanMission(w) /\ GuiFrame
    \/ WReturnToStarport(w) /\ GuiFrame
    \/ WRaise(w) /\ GuiFrame
    \/ WLoopExit(w) /\ GuiFrame
    \/ WLoopPoll(w) /\ GuiFrame
    \/ WLoopNoPoll(w) /\ GuiFrame
    \/ WSleep(w) /\ GuiFrame
    \/ WFinally(w) /\ GuiFrame

NextGui ==
    \/ StartRunner /\ GuiFrame
    \/ StopRunner /\ GuiFrame
    \/ RunnerFinished /\ GuiFrame
    \/ \E w \in Workers : WorkerStep(w)

SpecGui == InitGui /\ [][NextGui]_vars

(* Specification of one RunnerThread under a fair scheduler: the thread *)
(* keeps running while it has a step to take; clicks stay optional      *)

InitWorker ==
    /\ runner_thread = 0
    /\ wpc = [w \in Workers |-> IF w = 1 THEN "new" ELSE "unused"]
    /\ stop_event = [w \in Workers |-> FALSE]
    /\ wtotal = [w \in Workers |-> 0]
    /\ wscan = [w \in Workers |-> NoScan]
    /\ wleft = [w \in Workers |-> 0]
    /\ completes = [w \in Workers |-> 0]
    /\ opsAfterStop = [w \in Workers |-> 0]
    /\ pending = {}
    /\ IdlePure /\ IdleRun /\ IdleReg /\ IdleExt

SpecWorker ==
    InitWorker /\ [][NextGui]_vars /\ \A w \in Workers : WF_vars(WorkerStep(w))

-----------------------------------------------------------------------------
(* Specification of a MissionRegistry shared by threads, each calling   *)
(* any operation at any time                                             *)

InitReg ==
    /\ missions \in {<<>>, <<RuleA, RuleB>>}
    /\ lock = FreeLock
    /\ tpc = [t \in RegThreads |-> [at |-> "idle", done |-> 0]]
    /\ op = [t \in RegThreads |-> NoOp]
    /\ ret = [t \in RegThreads |-> NoList]
    /\ retAt = [t \in RegThreads |-> <<>>]
    /\ sawPartial = [t \in RegThreads |-> FALSE]
    /\ unlocked = FALSE
    /\ IdlePure /\ IdleRun /\ IdleGui /\ IdleExt

RegFrame == UNCHANGED <<pureVars, runVars, guiVars, extVars>>

RegStep(t) ==
    \/ RegAcquire(t) /\ RegFrame
    \/ RegAppend(t) /\ RegFrame
    \/ RegAddManyStep(t) /\ RegFrame
    \/ RegRemove(t) /\ RegFrame
    \/ RegAll(t) /\ RegFrame
    \/ RegRead(t) /\ RegFrame
    \/ RegClear(t) /\ RegFrame
    \/ RegRelease(t) /\ RegFrame

NextReg == \E t \in RegThreads : RegStep(t)

SpecReg == InitReg /\ [][NextReg]_vars

-----------------------------------------------------------------------------
(* C1 *)

\* AND across groups, OR within a group, on the upper-cased forms
MatchesAsSpecified(groups, t) ==
    \A g \in 1..Len(groups) :
        \E k \in 1..Len(groups[g]) : Contains(Upper(t), Upper(groups[g][k]))

\* the texts that differ from t only in the case of their letters
CaseVariants(t) ==
    {u \in [1..Len(t) -> MatchAlphabet] :
        \A k \in 1..Len(t) : UpperChar(u[k]) = UpperChar(t[k])}

NeedlesUpper(groups) ==
    [g \in 1..Len(groups) |->
        [k \in 1..Len(groups[g]) |-> Upper(groups[g][k])]]

NeedlesLower(groups) ==
    [g \in 1..Len(groups) |->
        [k \in 1..Len(groups[g]) |-> Lower(groups[g][k])]]

\* C1: matches(text) is true exactly when every needle group holds a needle
\* whose upper-cased form is a substring of the upper-cased text, and the
\* result is the same for every re-casing of the text and of the needles.
C1_MatchesAndOrCaseInsensitive ==
    ppc = "done" =>
        /\ result = MatchesAsSpecified(needles, text)
        /\ \A u \in CaseVariants(text) : Matches(needles, u) = result
        /\ Matches(NeedlesUpper(needles), text) = result
        /\ Matches(NeedlesLower(needles), text) = result

\* a two-group rule matched only because case is ignored
C1_Witness ==
    /\ ppc = "done"
    /\ result = TRUE
    /\ Len(needles) = 2
    /\ ~MatchesCaseSensitive(needles, text)

-----------------------------------------------------------------------------
(* C2, C5 *)

\* the three filters: the rule matches, the wing check (asked of a wing rule
\* only) returned True, a credit value was extracted and is over the rule's
\* value
FiltersPass(rule, t, wing_result) ==
    /\ MatchesAsSpecified(rule.needles, t)
    /\ rule.wing => wing_result = "true"
    /\ ExtractCreditValue(t) # NoCredit
    /\ ExtractCreditValue(t) > rule.value

C5_ValueIsMinimumThreshold ==
    last.valid =>
        \A k \in 1..Len(last.rules) :
            (/\ Matches(last.rules[k].needles, last.text)
             /\ last.rules[k].wing => last.wing[k] = "true"
             /\ ExtractCreditValue(last.text) # NoCredit
             /\ ExtractCreditValue(last.text) >= last.rules[k].value)
                => k \in last.acc

-----------------------------------------------------------------------------
(* C6 *)

\* C6: with dry_run enabled no state-changing game operation is invoked
\* during run_once or run_until_full.
C6_DryRunCallsNothing ==
    dry_run => \A o \in StateChangingOps : calls[o] = 0

\* a dry run_until_full that ran run_once twice over two categories and
\* returned with missions counted as accepted
C6_Witness ==
    /\ dry_run
    /\ rpc = "full_returned"
    /\ runs = 2
    /\ Len(cats) = 2
    /\ total >= 1

-----------------------------------------------------------------------------
(* C3, C4 *)

\* the 0-based positions of mission_text where "CR" starts, ignoring case
CrPositions(t) ==
    {p \in 0..(Len(t) - 2) : Upper(SubSeq(t, p + 1, p + 2)) = <<"C", "R">>}

Min(S) == CHOOSE x \in S : \A y \in S : x <= y

IsNumChar(c) == IsDigit(c) \/ c = ","

\* the maximal run of digits and commas that ends right before position p
RunBefore(t, p) ==
    LET starts == {j \in 0..p : \A k \in (j + 1)..p : IsNumChar(t[k])}
    IN SubSeq(t, Min(starts) + 1, p)

CreditAsSpecified(t) ==
    IF CrPositions(t) = {} THEN NoCredit
    ELSE LET run == RemoveCommas(RunBefore(t, Min(CrPositions(t))))
         IN IF run = <<>> THEN NoCredit ELSE IntOf(run)

\* C3: _extract_credit_value returns the integer written by the maximal run
\* of digits and commas right before the first case-insensitive "CR" of the
\* text, and None when there is no "CR" or the run has no digit.
C3_ExtractFirstCR ==
    ppc = "done" => result = CreditAsSpecified(text)

\* C4: a text that holds a digit directly followed by "CR" somewhere yields a
\* number, whatever comes before it.  Stated for the texts whose upper-cased
\* form has the length of the text, so that the index shift of C3 plays no part.
C4_ExtractFindsAnyCredit ==
    (/\ ppc = "done"
     /\ Len(Upper(text)) = Len(text)
     /\ \E p \in CrPositions(text) : p >= 1 /\ IsDigit(text[p]))
        => result >= 0

-----------------------------------------------------------------------------
(* C7: whatever Start/Stop clicks are made, at most one RunnerThread is *)
(* alive at any time.                                                    *)

AliveWorkers == {w \in Workers : Alive(w)}

C7_AtMostOneWorkerAlive == Cardinality(AliveWorkers) <= 1

(* C8: once stop() has been called on a worker, the worker eventually   *)
(* terminates; on_complete is never invoked twice for a worker, not     *)
(* before the worker's run() reaches its end, and exactly once by the   *)
(* time the worker is dead, whether it ended by a full depot, a stop    *)
(* request or an exception.                                              *)

C8_StopTerminatesAndCompletesOnce ==
    /\ \A w \in Workers : StopIsSet(w) ~> (wpc[w] = "dead")
    /\ [](\A w \in Workers :
            /\ completes[w] <= 1
            /\ wpc[w] = "dead" => completes[w] = 1
            /\ Alive(w) => completes[w] = 0)

C8_Witness ==
    \E w \in Workers :
        /\ StopIsSet(w)
        /\ wpc[w] = "dead"
        /\ completes[w] = 1
        /\ opsAfterStop[w] > 0

(* C9: after stop() a worker begins no further game operation, the one  *)
(* in progress when the flag was set excepted.                           *)

C9_NoGameOpAfterStop == \A w \in Workers : opsAfterStop[w] <= 1

-----------------------------------------------------------------------------
(* C10: the registry is thread-safe: every operation touches the list   *)
(* only while it holds the lock, no thread ever reads the list while    *)
(* another thread's add_many has added some of its rules and not yet    *)
(* all, and a list returned by all() keeps the items it had when it was *)
(* returned whatever the registry does afterwards.                       *)

C10_RegistryThreadSafe ==
    /\ ~unlocked
    /\ \A t \in RegThreads :
        /\ ~sawPartial[t]
        /\ tpc[t].at \in {"locked", "release"} => lock.owner = t
        /\ ret[t].valid => Items(ret[t]) = retAt[t]

C10_Witness ==
    \E t \in RegThreads :
        /\ ret[t].valid
        /\ missions # retAt[t]
        /\ tpc[t].at = "idle"
        /\ HalfApplied(t)

-----------------------------------------------------------------------------
(* Specification of the GUI's rule handlers beside a reading worker *)

InitEdit ==
    /\ missions \in {DefaultMissions, <<RuleA, RuleB, RuleC>>}
    /\ gpc = "idle"
    /\ gop = NoHandler
    /\ wread = NoRead
    /\ lock = <<>> /\ tpc = <<>> /\ op = <<>> /\ ret = <<>> /\ retAt = <<>>
    /\ sawPartial = <<>> /\ unlocked = FALSE
    /\ IdlePure /\ IdleRun /\ IdleGui
    /\ IdleCall /\ IdleBook /\ IdlePoll /\ IdleLog /\ IdleGame

EditFrame ==
    UNCHANGED <<pureVars, runVars, guiVars, lock, tpc, op, ret, retAt,
                sawPartial, unlocked, callVars, bookVars, pollVars, logVars, gameVars>>

NextEdit ==
    \/ HandlerBegin /\ EditFrame
    \/ HandlerRemove /\ EditFrame
    \/ HandlerAll /\ EditFrame
    \/ HandlerClear /\ EditFrame
    \/ HandlerAddMany /\ EditFrame
    \/ HandlerAddRule /\ EditFrame
    \/ WorkerRead /\ EditFrame

SpecEdit == InitEdit /\ [][NextEdit]_vars

-----------------------------------------------------------------------------
(* C11: while a GUI rule handler (edit, move up, move down, reset to    *)
(* defaults, import) runs, every registry read of the worker returns    *)
(* what it would return on the rule list from before the handler or on  *)
(* the list the handler leaves, never on a list in between.              *)

C11_WorkerReadsBeforeOrAfter ==
    wread.valid =>
        \E ms \in {wread.before, wread.after} :
            /\ wread.cats = GetUniqueCategories(ms)
            /\ wread.rules = GetRulesForCategory(ms, wread.category)

-----------------------------------------------------------------------------
(* gui/dialogs.py MissionEditorDialog._save: the needles it builds from *)
(* the pattern text ("nl" is the newline character)                      *)

MaxPatternLen == 3
MaxRules == 2

PatternAlphabet == {"a", "|", " ", "nl"}

IsSpace(c) == c \in {" ", "nl"}

RECURSIVE LStrip(_)
LStrip(s) == IF s # <<>> /\ IsSpace(Head(s)) THEN LStrip(Tail(s)) ELSE s

RECURSIVE RStrip(_)
RStrip(s) ==
    IF s # <<>> /\ IsSpace(s[Len(s)]) THEN RStrip(SubSeq(s, 1, Len(s) - 1))
    ELSE s

(* str.strip() *)
Strip(s) == RStrip(LStrip(s))

(* s.split(sep) for a one-character sep: the pieces, empty ones included *)
RECURSIVE Split(_, _)
Split(s, sep) ==
    IF \A k \in 1..Len(s) : s[k] # sep THEN <<s>>
    ELSE LET k == CHOOSE i \in 1..Len(s) :
                     s[i] = sep /\ \A j \in 1..(i - 1) : s[j] # sep
         IN <<SubSeq(s, 1, k - 1)>> \o Split(SubSeq(s, k + 1, Len(s)), sep)

(* [p.strip().upper() for p in line.split("|") if p.strip()] *)
RECURSIVE GroupOf(_)
GroupOf(pieces) ==
    IF pieces = <<>> THEN <<>>
    ELSE (IF Strip(Head(pieces)) # <<>>
          THEN <<Upper(Strip(Head(pieces)))>> ELSE <<>>)
         \o GroupOf(Tail(pieces))

(* the loop over pattern_text.split("\n"): blank lines and lines that  *)
(* give no needle are skipped                                            *)
RECURSIVE NeedlesOf(_)
NeedlesOf(lines) ==
    IF lines = <<>> THEN <<>>
    ELSE LET line == Strip(Head(lines))
             group == GroupOf(Split(line, "|"))
         IN (IF line # <<>> /\ group # <<>> THEN <<group>> ELSE <<>>)
            \o NeedlesOf(Tail(lines))

(* _save: the rule in dialog.result, or none after a validation error *)
DialogResult(pattern_text) ==
    LET stripped == Strip(pattern_text)
        groups == NeedlesOf(Split(stripped, "nl"))
    IN IF stripped = <<>> \/ groups = <<>> THEN <<>>
       ELSE << [needles |-> groups, label |-> "D", wing |-> FALSE,
                value |-> 0, categories |-> <<"transport">>] >>

(* The needles a caller of add, or an import file, may give *)
GivenNeedles ==
    { << << <<"a">> >> >>, << << <<"a">> >>, <<>> >>, << <<>> >>, <<>> }

GivenRule(given) ==
    [needles |-> given, label |-> "G", wing |-> FALSE, value |-> 0,
     categories |-> <<"combat">>]

(* _add_mission: the dialog, then registry.add_rule(dialog.result) *)
DialogAdd ==
    /\ Len(missions) < MaxRules
    /\ \E pattern_text \in SeqsUpTo(PatternAlphabet, MaxPatternLen) :
         missions' = missions \o DialogResult(pattern_text)

(* _edit_mission run to its end: the rule at idx replaced by the result *)
DialogEdit ==
    \E idx \in 1..Len(missions),
       pattern_text \in SeqsUpTo(PatternAlphabet, MaxPatternLen) :
        /\ DialogResult(pattern_text) # <<>>
        /\ missions' = [missions EXCEPT ![idx] = DialogResult(pattern_text)[1]]

(* MissionRegistry.add(needles, label), add_rule(rule), add_many([rule]) *)
RegistryAdd ==
    /\ Len(missions) < MaxRules
    /\ \E given \in GivenNeedles : missions' = Append(missions, GivenRule(given))

(* _import_missions run to its end: clear(), then add_rule per item *)
ImportMissions ==
    \E given \in GivenNeedles, n \in 0..MaxRules :
        missions' = [k \in 1..n |-> GivenRule(given)]

(* MissionRegistry.remove(rule) *)
RegistryRemove ==
    \E idx \in 1..Len(missions) :
        LET o == [NoOp EXCEPT !.name = "remove", !.rules = <<missions[idx]>>]
        IN missions' = Pop(missions, RemoveIndexFrom(missions, o, 1))

(* MissionRegistry.clear() *)
RegistryClear == missions' = <<>>

-----------------------------------------------------------------------------
(* Specification of a registry under the registry's and the GUI's rule  *)
(* operations, one after the other                                       *)

InitRules ==
    /\ missions \in {<<>>, DefaultMissions}
    /\ lock = <<>> /\ tpc = <<>> /\ op = <<>> /\ ret = <<>> /\ retAt = <<>>
    /\ sawPartial = <<>> /\ unlocked = FALSE
    /\ IdlePure /\ IdleRun /\ IdleGui /\ IdleExt

RulesFrame ==
    UNCHANGED <<pureVars, runVars, guiVars, lock, tpc, op, ret, retAt,
                sawPartial, unlocked, extVars>>

NextRules ==
    \/ DialogAdd /\ RulesFrame
    \/ DialogEdit /\ RulesFrame
    \/ RegistryAdd /\ RulesFrame
    \/ ImportMissions /\ RulesFrame
    \/ RegistryRemove /\ RulesFrame
    \/ RegistryClear /\ RulesFrame

SpecRules == InitRules /\ [][NextRules]_vars

-----------------------------------------------------------------------------
(* C12: after any sequence of registry and GUI rule operations, every   *)
(* needle group of every rule in the registry is non-empty.              *)

C12_GroupsNonEmpty ==
    \A k \in 1..Len(missions) :
        \A g \in 1..Len(missions[k].needles) : missions[k].needles[g] # <<>>

-----------------------------------------------------------------------------
(* core/mission_runner.py: the game operations of run_once in the order *)
(* they are called, and what run_until_full is given and returns         *)

GameCall(o, a) == [op |-> o, arg |-> a]

(* n calls of operation o, one after the other *)
Rep(o, n) == [k \in 1..n |-> GameCall(o, "")]

(* Calls of o made by the step being taken *)
Called(o) == calls'[o] - calls[o]

(* a scan loop body that moves to the next mission before it accepts *)
ScanOpsNextFirst(accepts, nexts) ==
    <<GameCall("at_bottom", ""), GameCall("ocr_mission", "")>>
    \o Rep("next_mission", nexts) \o Rep("accept_mission", accepts)

(* _scan_category's loop body: at_bottom() is false, ocr_mission(), the *)
(* accept_mission() calls of _accept_matching_missions, next_mission()  *)
ScanOps(accepts, nexts) ==
    <<GameCall("at_bottom", ""), GameCall("ocr_mission", "")>>
    \o Rep("accept_mission", accepts) \o Rep("next_mission", nexts)

(* a run_until_full that never reports more than max_missions *)
ReturnedCapped(t) == IF t > MaxDepot THEN MaxDepot ELSE t

(* return total_missions *)
ReturnedValue(t) == t

RECURSIVE SumOf(_)
SumOf(s) == IF s = <<>> THEN 0 ELSE Head(s) + SumOf(Tail(s))

TracedRunOnceBegin ==
    /\ RunOnceBegin
    /\ trace' = Rep("open_missions_board", Called("open_missions_board"))

TracedEnterCategory ==
    /\ EnterCategory
    /\ trace' = trace \o
         [k \in 1..Called("navigate_to_category") |->
             GameCall("navigate_to_category", cats[ci])]

TracedInterrupt ==
    /\ Interrupt
    /\ trace' = trace
         \o (IF rpc = "scan" THEN <<GameCall("at_bottom", "")>> ELSE <<>>)
         \o Rep("return_to_starport", Called("return_to_starport"))

TracedScanMission ==
    /\ ScanMission
    /\ trace' = trace \o ScanOps(Called("accept_mission"), Called("next_mission"))

TracedLeaveCategory ==
    /\ LeaveCategory
    /\ trace' = trace \o <<GameCall("at_bottom", "")>>
         \o Rep("return_to_categories", Called("return_to_categories"))
         \o Rep("return_to_starport", Called("return_to_starport"))

BookAddRunResult ==
    /\ AddRunResult
    /\ results' = Append(results, accepted)
    /\ returned' = IF rpc' = "full_returned" THEN ReturnedValue(total')
                   ELSE returned
    /\ UNCHANGED <<trace, existing>>

BookLoopExit ==
    /\ LoopExit
    /\ returned' = ReturnedValue(total')
    /\ UNCHANGED <<trace, existing, results>>

(* Specification of one run_once call with the sequence of its game     *)
(* operations                                                            *)

InitOrder ==
    /\ registry \in RegistryPool
    /\ dry_run \in BOOLEAN
    /\ hasStopCb \in BOOLEAN
    /\ stopReq = FALSE
    /\ rpc = "start"
    /\ cats = <<>>
    /\ ci = 0
    /\ scanned = 0
    /\ accepted = 0
    /\ calls = NoCalls
    /\ total = 0
    /\ runs = 1
    /\ last = NoLast
    /\ trace = <<>>
    /\ existing = 0
    /\ results = <<>>
    /\ returned = 0
    /\ IdlePure /\ IdleGui /\ IdleReg
    /\ IdleEdit /\ IdleCall /\ IdlePoll /\ IdleLog /\ IdleGame

OrderFrame ==
    UNCHANGED <<pureVars, guiVars, regVars, editVars, callVars, pollVars,
                logVars, gameVars, existing, results, returned>>

NextOrder ==
    \/ TracedRunOnceBegin /\ OrderFrame
    \/ TracedEnterCategory /\ OrderFrame
    \/ TracedInterrupt /\ OrderFrame
    \/ TracedScanMission /\ OrderFrame
    \/ TracedLeaveCategory /\ OrderFrame
    \/ RequestStop /\ UNCHANGED trace /\ OrderFrame

SpecOrder == InitOrder /\ [][NextOrder]_vars

(* Specification of one run_until_full call with what it was given, the *)
(* run_once results and what it returned                                 *)

(* Registries with no, one and two categories *)
BookRegistries == {<<>>, <<RuleA>>, <<RuleA, RuleB>>}

InitBook ==
    /\ registry \in BookRegistries
    /\ dry_run \in BOOLEAN
    /\ hasStopCb \in BOOLEAN
    /\ stopReq = FALSE
    /\ rpc = "start"
    /\ cats = <<>>
    /\ ci = 0
    /\ scanned = 0
    /\ accepted = 0
    /\ calls = NoCalls
    /\ existing \in 0..1
    /\ total = existing
    /\ runs = 1
    /\ last = NoLast
    /\ trace = <<>>
    /\ results = <<>>
    /\ returned = 0
    /\ IdlePure /\ IdleGui /\ IdleReg
    /\ IdleEdit /\ IdleCall /\ IdlePoll /\ IdleLog /\ IdleGame

BookFrame ==
    UNCHANGED <<pureVars, guiVars, regVars, editVars, callVars, pollVars,
                logVars, gameVars>>

NextBook ==
    \/ RunOnceBegin /\ UNCHANGED bookVars /\ BookFrame
    \/ EnterCategory /\ UNCHANGED bookVars /\ BookFrame
    \/ Interrupt /\ UNCHANGED bookVars /\ BookFrame
    \/ ScanMission /\ UNCHANGED bookVars /\ BookFrame
    \/ LeaveCategory /\ UNCHANGED bookVars /\ BookFrame
    \/ BookAddRunResult /\ BookFrame
    \/ BookLoopExit /\ BookFrame
    \/ LoopPoll /\ UNCHANGED bookVars /\ BookFrame
    \/ RequestStop /\ UNCHANGED bookVars /\ BookFrame

SpecBook == InitBook /\ [][NextBook]_vars

-----------------------------------------------------------------------------
(* C13: a complete run_once that is no dry run, over a registry with a  *)
(* category, calls open_missions_board once and first; then, for each   *)
(* unique category in registry order, navigate_to_category once and the *)
(* scan of the category (at_bottom, ocr_mission, accept_mission calls,  *)
(* next_mission, repeated, and a last at_bottom); return_to_categories  *)
(* once between two categories and not after the last; and              *)
(* return_to_starport once and last.                                     *)

OpAt(tr, i) == IF i <= Len(tr) THEN tr[i].op ELSE "end"

RECURSIVE SkipAccepts(_, _)
SkipAccepts(tr, i) ==
    IF OpAt(tr, i) = "accept_mission" THEN SkipAccepts(tr, i + 1) ELSE i

RECURSIVE CategoryFrom(_, _, _, _)
RECURSIVE MissionsFrom(_, _, _, _)

CategoryFrom(tr, i, categories, c) ==
    /\ i <= Len(tr)
    /\ tr[i] = GameCall("navigate_to_category", categories[c])
    /\ MissionsFrom(tr, i + 1, categories, c)

MissionsFrom(tr, i, categories, c) ==
    /\ OpAt(tr, i) = "at_bottom"
    /\ IF OpAt(tr, i + 1) = "ocr_mission"
         THEN LET j == SkipAccepts(tr, i + 2)
              IN /\ OpAt(tr, j) = "next_mission"
                 /\ MissionsFrom(tr, j + 1, categories, c)
       ELSE IF c < Len(categories)
         THEN /\ OpAt(tr, i + 1) = "return_to_categories"
              /\ CategoryFrom(tr, i + 2, categories, c + 1)
       ELSE /\ OpAt(tr, i + 1) = "return_to_starport"
            /\ i + 1 = Len(tr)

InOrder(tr, categories) ==
    /\ OpAt(tr, 1) = "open_missions_board"
    /\ CategoryFrom(tr, 2, categories, 1)

C13_RunOnceOperationOrder ==
    (rpc = "returned" /\ ~dry_run /\ GetUniqueCategories(registry) # <<>>)
        => InOrder(trace, GetUniqueCategories(registry))

C13_Witness ==
    /\ rpc = "returned"
    /\ ~dry_run
    /\ Len(GetUniqueCategories(registry)) = 2
    /\ \E i \in 1..Len(trace) : trace[i].op = "accept_mission"
    /\ \E i \in 1..Len(trace) : trace[i].op = "return_to_categories"

(* C14: run_until_full returns only when the total it tracks, which is  *)
(* existing_missions plus the results of the run_once calls made so     *)
(* far, has reached max_missions or a stop was requested, and it        *)
(* returns exactly that total.                                           *)

C14_ReturnsTotalWhenFullOrStopped ==
    rpc = "full_returned" =>
        /\ returned = existing + SumOf(results)
        /\ returned >= MaxDepot \/ ShouldStop

C14_Witness ==
    /\ rpc = "full_returned"
    /\ ~ShouldStop
    /\ Len(results) = 2
    /\ returned > MaxDepot

-----------------------------------------------------------------------------
(* The polling loop of run_until_full (and of _run_with_stop_check)     *)
(* against the wall clock.  Time passes in run_once and in sleep only.  *)

MaxClock == 400      \* seconds of wall-clock time followed
MaxInterval == 3     \* largest poll_interval_minutes

(* How long a run_once may take, in seconds *)
ScanSeconds == {0, 30, 90}

(* The loop_sleep_seconds of the modelled configurations *)
SleepSeconds == {20, 60}

(* localtime()[4] *)
MinuteOfHour(t) == (t \div 60) % 60

(* poll_check *)
PollCheck(t, cfg) == (MinuteOfHour(t) + cfg.offset) % cfg.interval

NoPolls == [any |-> FALSE, two |-> FALSE, minute |-> 0, at |-> 0, before |-> 0]

(* poll_check == 0: run_once is called now and takes some time; the     *)
(* depot may be full after it, which ends the loop                      *)
PollScan ==
    /\ lpc = "top"
    /\ PollCheck(clock, pcfg) = 0
    /\ polls' = [any |-> TRUE, two |-> polls.any,
                 minute |-> MinuteOfHour(clock),
                 at |-> clock \div 60, before |-> polls.at]
    /\ \E d \in ScanSeconds : clock' = clock + d
    /\ \E full \in BOOLEAN : lpc' = IF full THEN "done" ELSE "sleep"
    /\ UNCHANGED pcfg

(* poll_check != 0: no scan in this iteration *)
PollSkip ==
    /\ lpc = "top"
    /\ PollCheck(clock, pcfg) # 0
    /\ lpc' = "sleep"
    /\ UNCHANGED <<clock, pcfg, polls>>

(* sleep(loop_sleep_seconds), then the loop condition again *)
PollSleep ==
    /\ lpc = "sleep"
    /\ clock + pcfg.sleep <= MaxClock
    /\ clock' = clock + pcfg.sleep
    /\ lpc' = "top"
    /\ UNCHANGED <<pcfg, polls>>

(* Specification of the polling loop, from the end of the first scan *)

InitPoll ==
    /\ clock \in 0..59
    /\ pcfg \in [interval : 1..MaxInterval, offset : 0..MaxInterval,
                 sleep : SleepSeconds]
    /\ lpc = "top"
    /\ polls = NoPolls
    /\ IdlePure /\ IdleRun /\ IdleGui /\ IdleReg
    /\ IdleEdit /\ IdleCall /\ IdleBook /\ IdleLog /\ IdleGame

PollFrame ==
    UNCHANGED <<pureVars, runVars, guiVars, regVars, editVars, callVars,
                bookVars, logVars, gameVars>>

NextPoll ==
    \/ PollScan /\ PollFrame
    \/ PollSkip /\ PollFrame
    \/ PollSleep /\ PollFrame

SpecPoll == InitPoll /\ [][NextPoll]_vars

-----------------------------------------------------------------------------
(* C15: a polling-triggered scan starts only in a minute m of the hour  *)
(* with m mod poll_interval_minutes = poll_offset_minutes mod           *)
(* poll_interval_minutes.                                                *)

C15_PollsOnOffsetMinuteMark ==
    polls.any => polls.minute % pcfg.interval = pcfg.offset % pcfg.interval

(* C16: two consecutive polling-triggered scans start in different      *)
(* wall-clock minutes, whatever a scan's duration and loop_sleep_seconds *)

C16_OneScanPerMinute == polls.two => polls.at # polls.before

-----------------------------------------------------------------------------
(* main.py get_initial_mission_count *)

MaxInputLen == 3

InputAlphabet == {"1", "2", " ", "x", "-"}

(* Whether int(s) returns for the stripped input s, rather than raising *)
(* ValueError: digits with an optional sign in front                    *)
IntParses(s) ==
    LET body == IF s # <<>> /\ Head(s) = "-" THEN Tail(s) ELSE s
    IN body # <<>> /\ \A k \in 1..Len(body) : IsDigit(body[k])

(* int(s) where it returns *)
IntValue(s) == IF Head(s) = "-" THEN 0 - IntOf(Tail(s)) ELSE IntOf(s)

(* A returned object: an int, or None *)
IntObject(n) == [isInt |-> TRUE, val |-> n]

NoneObject == [isInt |-> FALSE, val |-> 0]

(* input() raises EOFError, or returns the typed line; a.detected is    *)
(* the number of missions the game shows                                *)
GetInitialMissionCount(a) ==
    IF a.eof THEN NoneObject
    ELSE LET user_input == Strip(a.typed)
         IN IF user_input # <<>> /\ IntParses(user_input)
              THEN IntObject(IntValue(user_input))
              ELSE NoneObject

CallGetInitialMissionCount ==
    /\ fpc = "ready_count"
    /\ out' = GetInitialMissionCount(arg)
    /\ fpc' = "done"
    /\ UNCHANGED arg

(* Specification of get_initial_mission_count: every typed line within  *)
(* the bounds, and end of input                                          *)

InitCount ==
    /\ arg \in [eof : BOOLEAN, typed : SeqsUpTo(InputAlphabet, MaxInputLen),
                detected : 0..1]
    /\ arg.eof => arg.typed = <<>>
    /\ out = NoneObject
    /\ fpc = "ready_count"
    /\ IdlePure /\ IdleRun /\ IdleGui /\ IdleReg
    /\ IdleEdit /\ IdleBook /\ IdlePoll /\ IdleLog /\ IdleGame

CallFrame ==
    UNCHANGED <<pureVars, runVars, guiVars, regVars, editVars, bookVars,
                pollVars, logVars, gameVars>>

NextCount == CallGetInitialMissionCount /\ CallFrame

SpecCount == InitCount /\ [][NextCount]_vars

-----------------------------------------------------------------------------
(* C17: get_initial_mission_count returns an integer: the number typed  *)
(* when the input is a valid integer, and the count detected from the   *)
(* game when the input is empty, invalid or at its end.                  *)

C17_InitialCountIsInteger ==
    fpc = "done" =>
        /\ out.isInt
        /\ out.val = IF ~arg.eof /\ IntParses(Strip(arg.typed))
                       THEN IntValue(Strip(arg.typed))
                       ELSE arg.detected

-----------------------------------------------------------------------------
(* MissionRegistry.remove of core/mission_registry.py and of the legacy *)
(* src/mission_registry.py, called once with a rule, a str or a list    *)

MaxHeld == 2    \* rules in the registry remove is called on

(* A str argument, as a label is written and as a needle is written *)
StrPool ==
    { [label |-> "A", chars |-> <<"A">>], [label |-> "B", chars |-> <<"B">>],
      [label |-> "a", chars |-> <<"a">>], [label |-> "b", chars |-> <<"b">>],
      [label |-> "x", chars |-> <<"x">>] }

NoGiven == [kind |-> "none", rule |-> <<>>, label |-> "", chars |-> <<>>,
            group |-> <<>>]

RemoveArgs ==
    {[NoGiven EXCEPT !.kind = "rule", !.rule = <<r>>] : r \in {RuleA, RuleB, RuleC}}
    \cup {[NoGiven EXCEPT !.kind = "str", !.label = s.label, !.chars = s.chars] :
            s \in StrPool}
    \cup {[NoGiven EXCEPT !.kind = "list", !.group = << <<"a">> >>]}

(* str == list, which Python evaluates to False whatever the operands *)
StrEqualsList(s, l) == FALSE

(* core: existing == mission, or mission is a str equal to the label *)
CoreRemoveIndex(ms, x) ==
    RemoveIndexFrom(ms,
        [NoOp EXCEPT !.name = IF x.kind = "rule" THEN "remove"
                              ELSE IF x.kind = "str" THEN "remove_label"
                              ELSE "remove_list",
                     !.rules = x.rule, !.label = x.label], 1)

(* legacy: `x in existing.needles` compares x with each needle group *)
InNeedleGroups(x, groups) ==
    \E g \in 1..Len(groups) :
        IF x.kind = "list" THEN groups[g] = x.group
        ELSE IF x.kind = "str" THEN StrEqualsList(x.chars, groups[g])
        ELSE FALSE

UpperGiven(x) == [x EXCEPT !.chars = Upper(@)]

RECURSIVE LegacyRemoveIndexFrom(_, _, _)
LegacyRemoveIndexFrom(ms, x, idx) ==
    IF idx > Len(ms) THEN 0
    ELSE IF x.kind = "rule" /\ ms[idx] = x.rule[1] THEN idx
    ELSE IF x.kind = "str"
            /\ (x.label = ms[idx].label
                \/ InNeedleGroups(UpperGiven(x), ms[idx].needles)) THEN idx
    ELSE IF InNeedleGroups(x, ms[idx].needles) THEN idx
    ELSE LegacyRemoveIndexFrom(ms, x, idx + 1)

(* What remove returns and what it leaves in the list *)
Removed(ms, idx) ==
    IF idx = 0 THEN [ok |-> FALSE, ms |-> ms] ELSE [ok |-> TRUE, ms |-> Pop(ms, idx)]

CallRemove ==
    /\ fpc = "ready_remove"
    /\ out' = [core |-> Removed(arg.ms, CoreRemoveIndex(arg.ms, arg.x)),
               legacy |-> Removed(arg.ms, LegacyRemoveIndexFrom(arg.ms, arg.x, 1))]
    /\ fpc' = "done"
    /\ UNCHANGED arg

(* Specification of remove: every registry and argument of the pools *)

InitRemove ==
    /\ arg \in [ms : SeqsUpTo({RuleA, RuleB, RuleC}, MaxHeld), x : RemoveArgs]
    /\ out = [core |-> Removed(<<>>, 0), legacy |-> Removed(<<>>, 0)]
    /\ fpc = "ready_remove"
    /\ IdlePure /\ IdleRun /\ IdleGui /\ IdleReg
    /\ IdleEdit /\ IdleBook /\ IdlePoll /\ IdleLog /\ IdleGame

NextRemove == CallRemove /\ CallFrame

SpecRemove == InitRemove /\ [][NextRemove]_vars

-----------------------------------------------------------------------------
(* C18: remove(x) for a rule or a str x removes the first rule that     *)
(* equals x, has label x or has x among its needles, keeps the order of *)
(* the others and returns True; with no such rule it changes nothing    *)
(* and returns False.                                                    *)

IsHit(rule, x) ==
    \/ x.kind = "rule" /\ rule = x.rule[1]
    \/ x.kind = "str" /\ rule.label = x.label
    \/ x.kind = "str"
       /\ \E g \in 1..Len(rule.needles) :
            \E k \in 1..Len(rule.needles[g]) : rule.needles[g][k] = x.chars

FirstHit(ms, x) ==
    IF \E idx \in 1..Len(ms) : IsHit(ms[idx], x)
    THEN CHOOSE idx \in 1..Len(ms) :
            IsHit(ms[idx], x) /\ \A j \in 1..(idx - 1) : ~IsHit(ms[j], x)
    ELSE 0

C18_RemoveByRuleLabelOrNeedle ==
    (fpc = "done" /\ arg.x.kind \in {"rule", "str"}) =>
        /\ out.core = Removed(arg.ms, FirstHit(arg.ms, arg.x))
        /\ out.legacy = Removed(arg.ms, FirstHit(arg.ms, arg.x))

-----------------------------------------------------------------------------
(* setup_discord_logging of services/discord.py, called again and again *)
(* with the webhook URL of the configuration of the moment              *)

Loggers == {"root", "named"}

(* logger_instance: None (the root logger) or a logger *)
LoggerArgs == {"None"} \cup Loggers

(* webhook_url: None, the empty str or a URL *)
WebhookUrls == {"None", "", "u1", "u2"}

Falsy(url) == url \in {"None", ""}

TargetLogger(li) == IF li = "None" THEN "root" ELSE li

NoCall == [called |-> FALSE, url |-> "None", ret |-> FALSE]

(* The DiscordWebhookHandler instances among a logger's handlers *)
HasDiscordHandler(hs) == Len(hs) > 0

SetupDiscordLogging(url, li) ==
    LET target == TargetLogger(li) IN
    /\ lpc = "idle"
    /\ IF Falsy(url)
       THEN /\ dcall' = [dcall EXCEPT ![target] =
                            [called |-> TRUE, url |-> url, ret |-> FALSE]]
            /\ UNCHANGED handlers
       ELSE IF HasDiscordHandler(handlers[target])
       THEN /\ dcall' = [dcall EXCEPT ![target] =
                            [called |-> TRUE, url |-> url, ret |-> TRUE]]
            /\ UNCHANGED handlers
       ELSE /\ handlers' = [handlers EXCEPT ![target] = Append(@, url)]
            /\ dcall' = [dcall EXCEPT ![target] =
                            [called |-> TRUE, url |-> url, ret |-> TRUE]]

(* Specification of the Discord set-up: any sequence of calls *)

InitDiscord ==
    /\ handlers = [l \in Loggers |-> <<>>]
    /\ dcall = [l \in Loggers |-> NoCall]
    /\ IdlePure /\ IdleRun /\ IdleGui /\ IdleReg
    /\ IdleEdit /\ IdleCall /\ IdleBook /\ IdleGame
    /\ clock = 0 /\ pcfg = <<>> /\ lpc = "idle" /\ polls = <<>>

LogFrame ==
    UNCHANGED <<pureVars, runVars, guiVars, regVars, editVars, callVars,
                bookVars, pollVars, gameVars>>

NextDiscord ==
    \E url \in WebhookUrls, li \in LoggerArgs :
        SetupDiscordLogging(url, li) /\ LogFrame

SpecDiscord == InitDiscord /\ [][NextDiscord]_vars

-----------------------------------------------------------------------------
(* C19: on every logger, the latest call of setup_discord_logging       *)
(* returned True exactly when a DiscordWebhookHandler is attached to    *)
(* the logger, and then the attached handler posts to the URL given in  *)
(* that latest call.                                                     *)

C19_TrueIffHandlerOfLatestUrl ==
    \A l \in Loggers :
        dcall[l].called =>
            /\ dcall[l].ret = HasDiscordHandler(handlers[l])
            /\ dcall[l].ret =>
                 \A k \in 1..Len(handlers[l]) : handlers[l][k] = dcall[l].url

-----------------------------------------------------------------------------
(* Specification of one run_once call that is no dry run, with a        *)
(* should_stop callable that may start to return True once the mission  *)
(* board is open                                                         *)

StopDuringRunOnce ==
    /\ rpc \in {"category", "scan"}
    /\ RequestStop

InitInterrupt ==
    /\ registry \in RegistryPool
    /\ dry_run = FALSE
    /\ hasStopCb = TRUE
    /\ stopReq = FALSE
    /\ rpc = "start"
    /\ cats = <<>>
    /\ ci = 0
    /\ scanned = 0
    /\ accepted = 0
    /\ calls = NoCalls
    /\ total = 0
    /\ runs = 1
    /\ last = NoLast
    /\ IdleBook
    /\ IdlePure /\ IdleGui /\ IdleReg
    /\ IdleEdit /\ IdleCall /\ IdlePoll /\ IdleLog /\ IdleGame

NextInterrupt ==
    \/ TracedRunOnceBegin /\ OrderFrame
    \/ TracedEnterCategory /\ OrderFrame
    \/ TracedInterrupt /\ OrderFrame
    \/ TracedScanMission /\ OrderFrame
    \/ TracedLeaveCategory /\ OrderFrame
    \/ StopDuringRunOnce /\ UNCHANGED trace /\ OrderFrame

SpecInterrupt == InitInterrupt /\ [][NextInterrupt]_vars

-----------------------------------------------------------------------------
(* C20, as stated: a stop that comes while run_once is scanning, after  *)
(* the mission board was opened, always interrupts the run; run_once    *)
(* never returns normally with the stop predicate true.                  *)

C20_StopAlwaysInterrupts ==
    rpc = "returned" => ~ShouldStop

(* C20, amended: when a stop check of a run_once that is no dry run     *)
(* (before a category, or after at_bottom() returned False) finds the   *)
(* stop predicate true, the run is interrupted: return_to_starport is   *)
(* called exactly once and is the last game operation, the step that    *)
(* observes the stop calls no accept_mission, next_mission or           *)
(* navigate_to_category, and InterruptedError leaves run_once.  With    *)
(* the stop predicate true the only other step run_once can take is     *)
(* at_bottom() returning True, which ends the category.                  *)

StarportReturns ==
    Cardinality({k \in 1..Len(trace) : trace[k].op = "return_to_starport"})

ObservedStopStep ==
    /\ rpc' = "interrupted"
    /\ Called("return_to_starport") = 1
    /\ \A o \in StateChangingOps \ {"return_to_starport"} : Called(o) = 0
    /\ accepted' = accepted

BottomStep ==
    /\ rpc = "scan"
    /\ rpc' \in {"category", "returned"}
    /\ \A o \in {"accept_mission", "next_mission", "navigate_to_category"} :
         Called(o) = 0

C20_ObservedStopInterrupts ==
    /\ [](rpc = "interrupted" =>
            /\ ShouldStop
            /\ calls["open_missions_board"] = 1
            /\ calls["return_to_starport"] = 1
            /\ StarportReturns = 1
            /\ trace[Len(trace)].op = "return_to_starport")
    /\ [][(ShouldStop /\ rpc = "category") => ObservedStopStep]_runVars
    /\ [][(ShouldStop /\ rpc = "scan") => ObservedStopStep \/ BottomStep]_runVars
    /\ [][rpc = "interrupted" => FALSE]_runVars

C20_Witness ==
    /\ rpc = "interrupted"
    /\ scanned >= 1
    /\ calls["accept_mission"] >= 1
    /\ calls["next_mission"] >= 1
    /\ ci = 2

-----------------------------------------------------------------------------
(* adapters/game.py EliteDangerousGame and core/coordinates.py UIMap,   *)
(* called by MissionRunner.run_until_full in the order of run_once and  *)
(* _scan_category                                                        *)

MaxSeen == 8    \* next_mission calls in one category before the list ends

(* The y coordinate of each ScreenRegion of UIMap.mission_regions and of *)
(* UIMap.wing_icon_regions; index 0 of the source is element 1 here      *)
MissionRegions == <<888, 1040, 1184, 1336, 1481, 1627, 1683>>

WingIconRegions == <<980, 1132, 1276, 1428, 1573, 1719, 1775>>

(* len(categories) of the run_once calls modelled *)
CategoryCounts == {1, 2}

(* a region lookup that takes the bottom position one mission early *)
GetMissionRegionEarly(mission_index) ==
    IF mission_index < 5 THEN MissionRegions[mission_index + 1]
    ELSE MissionRegions[6]

GetMissionRegion(mission_index) ==
    IF mission_index < 6 THEN MissionRegions[mission_index + 1]
    ELSE MissionRegions[6 + 1]

GetWingIconRegion(mission_index) ==
    IF mission_index < 6 THEN WingIconRegions[mission_index + 1]
    ELSE WingIconRegions[6 + 1]

NoRegion == [op |-> "none", y |-> 0, n |-> 0]

NoStart == [valid |-> FALSE, after |-> "none", seen |-> 0, baseline |-> "None"]

(* reset_state(), which counts as a reset for `since` *)
ResetState ==
    /\ missions_seen' = 0
    /\ back_button_original' = "None"
    /\ since' = 0

(* `if dry_run: log ... else: self.game.return_to_...()`: both methods  *)
(* call reset_state first                                                *)
ReturnUnlessDry ==
    IF dry_run THEN UNCHANGED <<missions_seen, back_button_original, since>>
    ELSE ResetState

(* run_once begins: categories found, open_missions_board unless dry *)
GameRunOnce ==
    /\ gpos = "start"
    /\ \E k \in CategoryCounts : left' = k
    /\ gpos' = "opened"
    /\ UNCHANGED <<missions_seen, back_button_original, since, region, started>>

(* for loop: no stop seen, _scan_category begins with navigate_to_category *)
GameEnterCategory ==
    /\ gpos \in {"opened", "categories"}
    /\ started' = [valid |-> TRUE, after |-> gpos, seen |-> missions_seen,
                   baseline |-> back_button_original]
    /\ left' = left - 1
    /\ gpos' = "scan"
    /\ UNCHANGED <<missions_seen, back_button_original, since, region>>

(* at_bottom(): the first call after a reset stores the baseline and    *)
(* returns False; a later one compares the screen with the baseline     *)
GameAtBottom ==
    /\ gpos = "scan"
    /\ IF back_button_original = "None"
       THEN /\ back_button_original' = "stored"
            /\ gpos' = "body"
       ELSE /\ UNCHANGED back_button_original
            /\ \/ since < MaxSeen /\ gpos' = "body"
               \/ gpos' = "bottom"
    /\ UNCHANGED <<missions_seen, since, region, left, started>>

(* the stop check of the while loop finds no stop: ocr_mission() *)
GameOcrMission ==
    /\ gpos = "body"
    /\ region' = [op |-> "ocr_mission", y |-> GetMissionRegion(missions_seen),
                  n |-> since]
    /\ gpos' = "read"
    /\ UNCHANGED <<missions_seen, back_button_original, since, left, started>>

(* check_wing_mission(), called for a wing rule that matches: with no   *)
(* wing icon loaded it returns False before it takes a region           *)
GameCheckWingMission ==
    /\ gpos = "read"
    /\ \E loaded \in BOOLEAN :
         region' = IF loaded
                   THEN [op |-> "check_wing_mission",
                         y |-> GetWingIconRegion(missions_seen), n |-> since]
                   ELSE region
    /\ UNCHANGED <<missions_seen, back_button_original, since, gpos, left,
                   started>>

(* _accept_matching_missions returned: next_mission() unless dry *)
GameNextMission ==
    /\ gpos = "read"
    /\ IF dry_run
       THEN UNCHANGED <<missions_seen, since>>
       ELSE /\ missions_seen' = missions_seen + 1
            /\ since' = since + 1
    /\ gpos' = "scan"
    /\ UNCHANGED <<back_button_original, region, left, started>>

(* _extract_credit_value raised: the error leaves run_once, whose       *)
(* handler catches InterruptedError only                                 *)
GameRaise ==
    /\ gpos = "read"
    /\ gpos' = "raised"
    /\ UNCHANGED <<missions_seen, back_button_original, since, region, left,
                   started>>

(* at_bottom() returned True: return_to_categories, or return_to_starport *)
(* after the last category, and run_until_full may call run_once again   *)
GameLeaveCategory ==
    /\ gpos = "bottom"
    /\ ReturnUnlessDry
    /\ gpos' = IF left > 0 THEN "categories" ELSE "start"
    /\ UNCHANGED <<region, left, started>>

(* a stop check finds the stop: return_to_starport unless dry, and      *)
(* InterruptedError ends the run                                         *)
GameInterrupt ==
    /\ gpos \in {"opened", "categories", "body"}
    /\ ReturnUnlessDry
    /\ gpos' = "interrupted"
    /\ UNCHANGED <<region, left, started>>

(* Specification of a game object from its construction on *)

InitRegion ==
    /\ missions_seen = 0
    /\ back_button_original = "None"
    /\ since = 0
    /\ region = NoRegion
    /\ gpos = "start"
    /\ left = 0
    /\ started = NoStart
    /\ registry = <<>> /\ dry_run \in BOOLEAN /\ hasStopCb = FALSE
    /\ stopReq = FALSE /\ rpc = "idle" /\ cats = <<>> /\ ci = 0
    /\ scanned = 0 /\ accepted = 0 /\ calls = NoCalls /\ total = 0
    /\ runs = 0 /\ last = NoLast
    /\ IdlePure /\ IdleGui /\ IdleReg
    /\ IdleEdit /\ IdleCall /\ IdleBook /\ IdlePoll /\ IdleLog

RegionFrame ==
    UNCHANGED <<pureVars, runVars, guiVars, regVars, editVars, callVars,
                bookVars, pollVars, logVars>>

NextRegion ==
    \/ GameRunOnce /\ RegionFrame
    \/ GameEnterCategory /\ RegionFrame
    \/ GameAtBottom /\ RegionFrame
    \/ GameOcrMission /\ RegionFrame
    \/ GameCheckWingMission /\ RegionFrame
    \/ GameNextMission /\ RegionFrame
    \/ GameRaise /\ RegionFrame
    \/ GameLeaveCategory /\ RegionFrame
    \/ GameInterrupt /\ RegionFrame

SpecRegion == InitRegion /\ [][NextRegion]_vars

-----------------------------------------------------------------------------
(* C21, as stated: every ocr_mission and check_wing_mission call uses   *)
(* the region at index min(n, 6), n the next_mission calls since the    *)
(* last reset, and every category scan starts at index 0 with no stored *)
(* back-button baseline.                                                 *)

RegionIndexIsCapped ==
    /\ region.op = "ocr_mission" =>
         region.y = MissionRegions[Min({region.n, 6}) + 1]
    /\ region.op = "check_wing_mission" =>
         region.y = WingIconRegions[Min({region.n, 6}) + 1]

C21_RegionIndexAndFreshScan ==
    /\ RegionIndexIsCapped
    /\ started.valid => started.seen = 0 /\ started.baseline = "None"

(* C21, amended: every ocr_mission and check_wing_mission call uses the *)
(* region at index min(n, 6), so the index lies in 0..6; every category *)
(* scan starts at index 0, and in a run that is no dry run it starts    *)
(* with no stored back-button baseline.                                  *)

C21_RegionIndexAndFreshNonDryScan ==
    /\ RegionIndexIsCapped
    /\ missions_seen = since
    /\ started.valid =>
         /\ started.seen = 0
         /\ ~dry_run => started.baseline = "None"

C21_Witness ==
    /\ ~dry_run
    /\ region.op = "check_wing_mission"
    /\ region.n = 7
    /\ region.y = WingIconRegions[7]
    /\ started.valid
    /\ started.after = "categories"
=============================================================================
